---------------------------- MODULE Spec2Model ----------------------------
(***************************************************************************)
(* A model of xclim's internationalization module (xclim/locales) and of   *)
(* the frost_days reduction exercised by tests/test_temperature.py.        *)
(*                                                                         *)
(* Python strings that the code slices or splits (locale tags, file names, *)
(* module paths, keyword values) are sequences of one-character strings;   *)
(* strings that are only concatenated or compared are TLA+ strings.        *)
(***************************************************************************)
EXTENDS Integers, Sequences, FiniteSets, TLC

VARIABLES
    resource_dir,   \* pkg_resources.resource_listdir(__package__, ""): file names
    files,          \* the paths p for which Path(p).is_file() holds
    LOCALES,        \* xclim.locales.LOCALES, the active-locale registry
    ctx,            \* the metadata_locale objects: locales, old_locales
    with_stack,     \* the with-blocks currently open, innermost last
    last,           \* the last registry call: its arguments and its outcome
    best,           \* a get_best_locale call: requested tag and result
    fmt,            \* a TranslatableStr.format call: object, arguments, outcome
    call,           \* a get_local_attrs call: arguments and outcome
    frost           \* a frost_days call: input array and result

vars == <<resource_dir, files, LOCALES, ctx, with_stack, last, best, fmt, call, frost>>

-----------------------------------------------------------------------------
(* Bounds of the model.                                                    *)

\* longest argument list of set_locales / metadata_locale / get_local_attrs
MaxArgs == 2
\* deepest nesting of with-blocks
MaxDepth == 2
\* most files in the bundled resource directory
MaxListing == 3
\* most keyword arguments of one format call
MaxKwargs == 2
\* days in one resampling period
PeriodLen == 2

-----------------------------------------------------------------------------
(* Python values and string primitives.                                    *)

\* Python's None where a character sequence is expected
None == <<"None">>

\* "".join(s) for a sequence of one-character strings
RECURSIVE Join(_)
Join(s) == IF s = <<>> THEN "" ELSE Head(s) \o Join(Tail(s))

\* str.split(sep) for a one-character separator
RECURSIVE split(_, _)
split(s, sep) ==
    IF s = <<>> THEN << <<>> >>
    ELSE IF Head(s) = sep THEN << <<>> >> \o split(Tail(s), sep)
    ELSE LET r == split(Tail(s), sep)
         IN  << <<Head(s)>> \o Head(r) >> \o Tail(r)

\* str.endswith(suffix)
endswith(s, suffix) ==
    /\ Len(s) >= Len(suffix)
    /\ SubSeq(s, Len(s) - Len(suffix) + 1, Len(s)) = suffix

\* str.startswith(prefix)
startswith(s, prefix) ==
    /\ Len(s) >= Len(prefix)
    /\ SubSeq(s, 1, Len(prefix)) = prefix

\* all sequences over S of length at most n
SeqsUpTo(S, n) == UNION {[1..k -> S] : k \in 0..n}

-----------------------------------------------------------------------------
(* Locale tags and resource file names used as inputs.                     *)

t_fr == <<"f", "r">>
t_frBE == <<"f", "r", "-", "B", "E">>
t_frCA == <<"f", "r", "-", "C", "A">>
t_en == <<"e", "n">>
t_enUS == <<"e", "n", "-", "U", "S">>
t_enGB == <<"e", "n", "-", "G", "B">>
t_de == <<"d", "e">>
t_xx == <<"x", "x">>

dot_json == <<".", "j", "s", "o", "n">>

\* names a resource directory may hold: locale files, and files that are none
FileNames ==
    { t_fr \o dot_json, t_frBE \o dot_json, t_frCA \o dot_json,
      t_enUS \o dot_json, t_enGB \o dot_json,
      <<"_", "_", "i", "n", "i", "t", "_", "_", ".", "p", "y">> }

\* the tags requested of get_best_locale
Tags == {t_fr, t_frBE, t_frCA, t_en, t_enUS, t_enGB, t_de, <<>>}

-----------------------------------------------------------------------------
(* list_locales and get_best_locale.                                       *)

stem(name) == split(name, ".")[1]

\* [locale.split(".")[0] for locale in locale_list if locale.endswith(".json")]
list_locales(dir) ==
    LET json_files == SelectSeq(dir, LAMBDA n : endswith(n, dot_json))
    IN  [i \in 1..Len(json_files) |-> stem(json_files[i])]

lang(tag) == split(tag, "-")[1]

\* the elements of a sequence, as a set
Range(s) == {s[i] : i \in DOMAIN s}

get_best_locale_last(locale, dir) ==
    LET available == list_locales(dir)
        short == lang(locale)
        same == SelectSeq(available, LAMBDA av : lang(av) = short)
    IN  IF locale \in Range(available) THEN locale
        ELSE IF short \in Range(available) THEN short
        ELSE IF same # <<>> THEN same[Len(same)]
        ELSE None

get_best_locale_any(locale, dir) ==
    LET available == list_locales(dir)
        short == lang(locale)
        same == SelectSeq(available, LAMBDA av : lang(av) = short)
    IN  IF locale \in Range(available) THEN locale
        ELSE IF short \in Range(available) THEN short
        ELSE IF same # <<>> THEN same[1]
        ELSE IF available # <<>> THEN available[1]
        ELSE None

get_best_locale(locale, dir) ==
    LET available == list_locales(dir)
        short == lang(locale)
        same == SelectSeq(available, LAMBDA av : lang(av) = short)
    IN  IF locale \in Range(available) THEN locale
        ELSE IF short \in Range(available) THEN short
        ELSE IF short \in Range([i \in 1..Len(available) |-> lang(available[i])])
             THEN same[1]
        ELSE None

-----------------------------------------------------------------------------
(* Locale specifiers: a plain tag (a Python str), a (tag, path) pair or a  *)
(* (tag, dict) pair.  arg is the path, or the name of the dict object.     *)

Entry(kind, tag, arg) == [kind |-> kind, tag |-> tag, arg |-> arg]

\* no locale: the value of "raised" when nothing was raised
NoEntry == Entry("None", <<>>, "")

e_frCA == Entry("str", t_frCA, "")
e_de == Entry("str", t_de, "")
e_xx == Entry("str", t_xx, "")
e_path == Entry("path", t_fr, "/data/fr.json")
e_dict == Entry("dict", t_fr, "d1")

\* the paths of the (tag, path) pairs in use
Paths == {"/data/fr.json"}

\* the locale specifiers handed to set_locales
LocaleArgs == {e_frCA, e_de, e_xx, e_path, e_dict}

\* argument lists of up to MaxArgs specifiers, none given twice
ArgLists ==
    {L \in SeqsUpTo(LocaleArgs, MaxArgs) :
        \A i, j \in 1..Len(L) : L[i] = L[j] => i = j}

\* the locale specifiers handed to get_local_attrs, or in the registry it reads
AttrsLocaleArgs == {e_frCA, e_de, e_path, e_dict}

AttrsArgLists == SeqsUpTo(AttrsLocaleArgs, MaxArgs)

\* the argument lists used where with-blocks nest
CtxArgLists ==
    {<<>>, <<e_xx>>, <<e_path>>, <<e_dict, e_frCA>>}

\* the metadata_locale object the program keeps in a variable and may re-enter
Ctx == {"cm"}

\* the resource directory of the installed package
BundledDir ==
    << <<"_", "_", "i", "n", "i", "t", "_", "_", ".", "p", "y">>,
       t_fr \o dot_json, t_de \o dot_json >>

-----------------------------------------------------------------------------
(* set_locales.                                                            *)

\* the condition of the if statement in the loop of set_locales
unavailable_unchecked(locale, fs, dir) == FALSE

unavailable(locale, fs, dir) ==
    \/ locale.kind = "str" /\ get_best_locale(locale.tag, dir) = None
    \/ locale.kind # "str" /\ locale.kind = "path" /\ locale.arg \notin fs

\* the for loop of set_locales from its i-th argument on: the locale it
\* raises UnavailableLocaleError for, or NoEntry when it runs to its end
RECURSIVE validate(_, _, _, _)
validate(locales, i, fs, dir) ==
    IF i > Len(locales) THEN NoEntry
    ELSE IF unavailable(locales[i], fs, dir) THEN locales[i]
    ELSE validate(locales, i + 1, fs, dir)

\* a set_locales that stores each locale as soon as it has validated it
set_locales_eager(locales, registry, fs, dir) ==
    LET bad == validate(locales, 1, fs, dir)
        n == IF bad = NoEntry THEN Len(locales)
             ELSE (CHOOSE i \in 1..Len(locales) :
                      /\ locales[i] = bad
                      /\ \A j \in 1..(i - 1) : locales[j] # bad) - 1
    IN  [raised |-> bad, registry |-> SubSeq(locales, 1, n)]

\* set_locales(*locales) on a registry: what it raises and the registry after
set_locales(locales, registry, fs, dir) ==
    LET bad == validate(locales, 1, fs, dir)
    IN  [raised |-> bad,
         registry |-> IF bad = NoEntry THEN locales ELSE registry]

-----------------------------------------------------------------------------
(* Locale data: the bundled json files, the file of the (tag, path) pair   *)
(* and the dict of the (tag, dict) pair; and the indicator.                *)

TRANSLATABLE_ATTRS == <<"long_name", "description", "comment", "title">>

\* a dict without keys
EmptyDict == [k \in {} |-> ""]

\* fr.json of the package
d_fr ==
    ("attrs_mapping" :> [modifiers |-> <<"", "_f">>, YS |-> <<"annuel", "annuelle">>])
    @@ ("atmos.tg" :> [long_name |-> "Temperature moyenne",
                       description |-> "Moyenne {freq_f} de la temperature"])

\* de.json of the package: no entry for the indicator
d_de == ("attrs_mapping" :> [modifiers |-> <<"">>])

\* the json file at /data/fr.json: no "modifiers" in its attrs_mapping
d_file ==
    ("attrs_mapping" :> [YS |-> <<"annuel">>])
    @@ ("atmos.tg" :> [description |-> "Moyenne (fichier)"])

\* the dict object d1
d_d1 ==
    ("attrs_mapping" :> [modifiers |-> <<"_m">>, YS |-> <<"annuel">>])
    @@ ("atmos.tg" :> [long_name |-> "Temperature (d1)", title |-> "Titre (d1)"])

\* json.load(pkg_resources.resource_stream(__package__, f"{locale}.json"))
bundled_json(locale) == IF locale = t_fr THEN d_fr ELSE d_de

\* the indicator object: __module__, identifier and its own attributes
tg_mean ==
    [module |-> <<"x", "c", "l", "i", "m", ".", "a", "t", "m", "o", "s">>,
     identifier |-> "tg",
     long_name |-> "Mean temperature",
     description |-> "{freq} mean of daily mean temperature.",
     comment |-> "",
     title |-> "Mean temperature"]

-----------------------------------------------------------------------------
(* get_local_dict and get_local_attrs.                                     *)

\* get_local_dict(locale): the exception it raises ("" for none), or the
\* (locale name, translations) pair it returns
get_local_dict(locale, fs, dir) ==
    IF locale.kind = "str"
    THEN LET found == get_best_locale(locale.tag, dir)
         IN  IF found = None
             THEN [raised |-> "UnavailableLocaleError", name |-> <<>>, dict |-> EmptyDict]
             ELSE [raised |-> "", name |-> found, dict |-> bundled_json(found)]
    ELSE IF locale.kind = "dict"
    THEN [raised |-> "", name |-> locale.tag, dict |-> d_d1]
    ELSE IF locale.arg \in fs
    THEN [raised |-> "", name |-> locale.tag, dict |-> d_file]
    ELSE [raised |-> "FileNotFoundError", name |-> <<>>, dict |-> EmptyDict]

\* f"{indicator.__module__.split('.')[1]}.{indicator.identifier}"
ind_name_of(indicator) ==
    Join(split(indicator.module, ".")[2]) \o "." \o indicator.identifier

\* TranslatableStr(string, translations, modifiers)
TranslatableStr(string, translations, modifiers) ==
    [data |-> string, translations |-> translations, modifiers |-> modifiers]

\* the for loop over TRANSLATABLE_ATTRS from its j-th name on
RECURSIVE attr_loop(_, _, _, _, _, _)
attr_loop(indicator, loc_dict, loc_name, opt, j, attrs) ==
    IF j > Len(TRANSLATABLE_ATTRS) THEN attrs
    ELSE LET name == TRANSLATABLE_ATTRS[j]
             local_attrs == loc_dict[ind_name_of(indicator)]
             mapping == loc_dict["attrs_mapping"]
             ind_dict == [k \in DOMAIN mapping \ {"modifiers"} |-> mapping[k]]
             mods == IF "modifiers" \in DOMAIN mapping
                     THEN mapping["modifiers"] ELSE <<"">>
             text == IF name \in DOMAIN local_attrs
                     THEN local_attrs[name] ELSE indicator[name]
         IN  IF /\ (~opt.names.given \/ name \in opt.names.list)
                /\ (opt.fill_missing \/ name \in DOMAIN local_attrs)
             THEN attr_loop(indicator, loc_dict, loc_name, opt, j + 1,
                            ((name \o loc_name) :> TranslatableStr(text, ind_dict, mods))
                            @@ attrs)
             ELSE attr_loop(indicator, loc_dict, loc_name, opt, j + 1, attrs)

\* the for loop over the locales from the i-th on; acc is what the loop has
\* built, loaded and warned about so far
RECURSIVE locale_loop(_, _, _, _, _, _, _)
locale_loop(indicator, locales, opt, i, fs, dir, acc) ==
    IF i > Len(locales) THEN [acc EXCEPT !.returned = TRUE]
    ELSE LET got == get_local_dict(locales[i], fs, dir)
             loaded == Append(acc.loaded, locales[i])
             loc_name == IF opt.append_locale_name THEN "_" \o Join(got.name) ELSE ""
             ind_name == ind_name_of(indicator)
         IN  IF got.raised # ""
             THEN [acc EXCEPT !.raised = got.raised, !.attrs = EmptyDict,
                              !.loaded = loaded]
             ELSE IF ind_name \notin DOMAIN got.dict
             THEN locale_loop(indicator, locales, opt, i + 1, fs, dir,
                      [acc EXCEPT !.loaded = loaded,
                                  !.warned = Append(acc.warned, locales[i])])
             ELSE locale_loop(indicator, locales, opt, i + 1, fs, dir,
                      [acc EXCEPT !.loaded = loaded,
                                  !.attrs = attr_loop(indicator, got.dict, loc_name,
                                                      opt, 1, acc.attrs)])

NoResult ==
    [raised |-> "", returned |-> FALSE, attrs |-> EmptyDict,
     loaded |-> <<>>, warned |-> <<>>]

\* a get_local_attrs that checks append_locale_name after the locales are loaded
get_local_attrs_late(indicator, locales, registry, opt, fs, dir) ==
    LET effective == IF locales = <<>> THEN registry ELSE locales
        r == locale_loop(indicator, effective, opt, 1, fs, dir, NoResult)
    IN  IF ~opt.append_locale_name /\ Len(effective) > 1 /\ r.raised = ""
        THEN [r EXCEPT !.raised = "ValueError", !.returned = FALSE, !.attrs = EmptyDict]
        ELSE r

\* a get_local_attrs that fills untranslated attributes whatever fill_missing is
get_local_attrs_filled(indicator, locales, registry, opt, fs, dir) ==
    LET effective == IF locales = <<>> THEN registry ELSE locales
    IN  IF ~opt.append_locale_name /\ Len(effective) > 1
        THEN [NoResult EXCEPT !.raised = "ValueError"]
        ELSE locale_loop(indicator, effective, [opt EXCEPT !.fill_missing = TRUE],
                         1, fs, dir, NoResult)

\* get_local_attrs(indicator, *locales, names, fill_missing, append_locale_name)
\* with the registry it reads: the exception raised ("" for none), the mapping
\* returned, the locales handed to get_local_dict and those warned about
get_local_attrs(indicator, locales, registry, opt, fs, dir) ==
    LET effective == IF locales = <<>> THEN registry ELSE locales
    IN  IF ~opt.append_locale_name /\ Len(effective) > 1
        THEN [NoResult EXCEPT !.raised = "ValueError"]
        ELSE locale_loop(indicator, effective, opt, 1, fs, dir, NoResult)

\* the values of the names argument: None, or a list of attribute names
NamesArgs ==
    { [given |-> FALSE, list |-> {}],
      [given |-> TRUE, list |-> {"long_name", "comment"}] }

Options ==
    [names : NamesArgs, fill_missing : BOOLEAN, append_locale_name : BOOLEAN]

-----------------------------------------------------------------------------
(* The registry, get_local_attrs and the metadata_locale context manager.  *)

NoCall == [op |-> "none", raised |-> NoEntry]

NoAttrs == [op |-> "none"]
NoBest == [op |-> "none"]
NoFmt == [op |-> "none"]
NoFrost == [op |-> "none"]

Init ==
    /\ resource_dir = BundledDir
    /\ files \in SUBSET Paths
    /\ LOCALES = <<>>
    /\ ctx = [c \in Ctx |-> [made |-> FALSE, locales |-> <<>>, old_locales |-> <<>>]]
    /\ with_stack = <<>>
    /\ last = NoCall
    /\ call = NoAttrs
    /\ best = NoBest
    /\ fmt = NoFmt
    /\ frost = NoFrost

others == <<best, fmt, frost>>

\* a call of set_locales(*locales) by the program
SetLocales(locales) ==
    LET r == set_locales(locales, LOCALES, files, resource_dir)
    IN  /\ LOCALES' = r.registry
        /\ last' = [op |-> "set_locales", raised |-> r.raised]
        /\ call' = NoAttrs
        /\ UNCHANGED <<resource_dir, files, ctx, with_stack, others>>

\* the environment deletes or creates the file of a (tag, path) pair
FileRemoved(p) ==
    /\ p \in files
    /\ files' = files \ {p}
    /\ last' = NoCall
    /\ call' = NoAttrs
    /\ UNCHANGED <<resource_dir, LOCALES, ctx, with_stack, others>>

FileCreated(p) ==
    /\ p \notin files
    /\ files' = files \cup {p}
    /\ last' = NoCall
    /\ call' = NoAttrs
    /\ UNCHANGED <<resource_dir, LOCALES, ctx, with_stack, others>>

Next ==
    \/ \E locales \in ArgLists : SetLocales(locales)
    \/ \E p \in Paths : FileRemoved(p)
    \/ \E p \in Paths : FileCreated(p)

Spec == Init /\ [][Next]_vars

-----------------------------------------------------------------------------
(* The metadata_locale context manager.  A frame of with_stack is one open *)
(* with block: the object it entered ("new" for the object the with        *)
(* statement itself created, which nothing else refers to, with its        *)
(* old_locales) and the registry at its entry.                             *)

\* metadata_locale.__init__ of the object kept in a variable
MetadataLocaleInit(c, locales) ==
    /\ ~ctx[c].made
    /\ ctx' = [ctx EXCEPT ![c] = [made |-> TRUE, locales |-> locales,
                                  old_locales |-> <<>>]]
    /\ last' = NoCall
    /\ UNCHANGED <<resource_dir, files, LOCALES, with_stack, call, others>>

\* "with c:", metadata_locale.__enter__ of an object made before: the block
\* is entered, and __exit__ owed, only when __enter__ returns
Enter(c) ==
    /\ ctx[c].made
    /\ Len(with_stack) < MaxDepth
    /\ LET r == set_locales(ctx[c].locales, LOCALES, files, resource_dir)
       IN  /\ ctx' = [ctx EXCEPT ![c].old_locales = LOCALES]
           /\ LOCALES' = r.registry
           /\ with_stack' =
                  IF r.raised = NoEntry
                  THEN Append(with_stack,
                              [ctx |-> c, old_locales |-> <<>>, entry |-> LOCALES])
                  ELSE with_stack
           /\ last' = [op |-> "enter", raised |-> r.raised]
    /\ UNCHANGED <<resource_dir, files, call, others>>

\* "with metadata_locale(*locales):", __init__ and __enter__ of a new object
EnterNew(locales) ==
    /\ Len(with_stack) < MaxDepth
    /\ LET r == set_locales(locales, LOCALES, files, resource_dir)
       IN  /\ LOCALES' = r.registry
           /\ with_stack' =
                  IF r.raised = NoEntry
                  THEN Append(with_stack,
                              [ctx |-> "new", old_locales |-> LOCALES, entry |-> LOCALES])
                  ELSE with_stack
           /\ last' = [op |-> "enter", raised |-> r.raised]
    /\ UNCHANGED <<resource_dir, files, ctx, call, others>>

\* self.old_locales of the object of a frame
old_locales_of(frame) ==
    IF frame.ctx \in Ctx THEN ctx[frame.ctx].old_locales ELSE frame.old_locales

\* metadata_locale.__exit__ at the end of the innermost open with block,
\* reached normally (exc = FALSE) or by an exception passing through it
Exit(exc) ==
    /\ with_stack # <<>>
    /\ LET top == with_stack[Len(with_stack)]
           r == set_locales(old_locales_of(top), LOCALES, files, resource_dir)
       IN  /\ LOCALES' = r.registry
           /\ with_stack' = SubSeq(with_stack, 1, Len(with_stack) - 1)
           /\ last' = [op |-> "exit", raised |-> r.raised]
    /\ UNCHANGED <<resource_dir, files, ctx, call, others>>

NextCtx ==
    \/ \E locales \in CtxArgLists : SetLocales(locales)
    \/ \E c \in Ctx, locales \in CtxArgLists : MetadataLocaleInit(c, locales)
    \/ \E c \in Ctx : Enter(c)
    \/ \E locales \in CtxArgLists : EnterNew(locales)
    \/ \E exc \in BOOLEAN : Exit(exc)
    \/ \E p \in Paths : FileRemoved(p)
    \/ \E p \in Paths : FileCreated(p)

SpecCtx == Init /\ [][NextCtx]_vars

-----------------------------------------------------------------------------
(* get_local_attrs, a function of its arguments, the registry and the      *)
(* files: the call is drawn by InitAttrs and made by GetLocalAttrs.        *)

InitAttrs ==
    /\ resource_dir = BundledDir
    /\ files \in SUBSET Paths
    /\ LOCALES \in AttrsArgLists
    /\ ctx = [c \in Ctx |-> [made |-> FALSE, locales |-> <<>>, old_locales |-> <<>>]]
    /\ with_stack = <<>>
    /\ last = NoCall
    /\ call \in [op : {"pending"}, locales : AttrsArgLists, opt : Options]
    /\ best = NoBest
    /\ fmt = NoFmt
    /\ frost = NoFrost

\* the call of get_local_attrs
GetLocalAttrs ==
    /\ call.op = "pending"
    /\ call' = [op |-> "get_local_attrs", locales |-> call.locales, opt |-> call.opt]
               @@ get_local_attrs(tg_mean, call.locales, LOCALES, call.opt,
                                  files, resource_dir)
    /\ UNCHANGED <<resource_dir, files, LOCALES, ctx, with_stack, last, others>>

NextAttrs == GetLocalAttrs

SpecAttrs == InitAttrs /\ [][NextAttrs]_vars

-----------------------------------------------------------------------------
(* get_best_locale, a function of the requested tag and of the resource    *)
(* directory: both are drawn by InitResolve.                               *)

\* the listings of a resource directory: distinct file names
Listings ==
    {d \in SeqsUpTo(FileNames, MaxListing) :
        \A i, j \in 1..Len(d) : i # j => d[i] # d[j]}

InitResolve ==
    /\ resource_dir \in Listings
    /\ files = {}
    /\ LOCALES = <<>>
    /\ ctx = [c \in Ctx |-> [made |-> FALSE, locales |-> <<>>, old_locales |-> <<>>]]
    /\ with_stack = <<>>
    /\ last = NoCall
    /\ call = NoAttrs
    /\ best \in [op : {"pending"}, locale : Tags]
    /\ fmt = NoFmt
    /\ frost = NoFrost

\* the call of get_best_locale
GetBestLocale ==
    /\ best.op = "pending"
    /\ best' = [op |-> "get_best_locale", locale |-> best.locale,
                result |-> get_best_locale(best.locale, resource_dir)]
    /\ UNCHANGED <<resource_dir, files, LOCALES, ctx, with_stack, last, call, fmt, frost>>

NextResolve == GetBestLocale

SpecResolve == InitResolve /\ [][NextResolve]_vars

-----------------------------------------------------------------------------
(* TranslatableStr.format.  A value is a Python str (its characters) or an *)
(* int; kwargs is the sequence of (key, val) pairs in the order of the     *)
(* call; the format string is the sequence of its literal texts and        *)
(* replacement fields.                                                     *)

Str(chars) == [isstr |-> TRUE, s |-> chars, n |-> 0]
IntVal(n) == [isstr |-> FALSE, s |-> <<>>, n |-> n]

c_nice == <<"n", "i", "c", "e">>
c_evil == <<"e", "v", "i", "l">>

\* the values passed as keyword arguments
KwValues ==
    { Str(<<"{">> \o c_nice \o <<"}">>),
      Str(<<"{">> \o c_evil \o <<"}">>),
      Str(c_nice),
      Str(<<"{">> \o c_nice),
      Str(<<"{">> \o c_nice \o <<"!">>),
      Str(<<"{", "u", "n", "k", "n", "o", "w", "n", "}">>),
      IntVal(3) }

\* the keywords of a call
Keywords == {"adj1", "adj1_m", "adj2"}

\* self.translations: None, or the table of the docstring of format
Translations ==
    { [none |-> TRUE, table |-> EmptyDict],
      [none |-> FALSE,
       table |-> (c_nice :> <<Str(<<"b", "e", "a", "u">>), Str(<<"b", "e", "l", "l", "e">>)>>)
                 @@ (c_evil :> <<Str(<<"m", "e", "c", "h", "a", "n", "t">>),
                                 Str(<<"m", "e", "c", "h", "a", "n", "t", "e">>)>>)] }

\* self.modifiers
Modifiers == { <<"_m", "_f">>, <<"", "_f">> }

Lit(text) == [kind |-> "lit", text |-> text, index |-> 0]
Field(name) == [kind |-> "field", text |-> name, index |-> 0]
Pos(n) == [kind |-> "pos", text |-> "", index |-> n]

\* the format strings
Templates ==
    { <<Lit("Le chien est "), Field("adj1_m"), Lit(", l'oie est "), Field("adj2_f")>>,
      <<Lit("X is "), Field("adj1")>>,
      <<Pos(0), Lit(" est "), Field("adj1_f")>> }

\* the positional arguments of a call
PosArgs == { <<>>, <<Str(<<"L", "e", "a">>)>> }

\* the keyword arguments of a call: at most MaxKwargs, each keyword once
KwargLists ==
    {kw \in SeqsUpTo([key : Keywords, val : KwValues], MaxKwargs) :
        \A i, j \in 1..Len(kw) : i # j => kw[i].key # kw[j].key}

\* val[1:-1]
inner(val) == SubSeq(val, 2, Len(val) - 1)

\* dict.update(other): the keys of other replace those of the dict
update(d, other) == other @@ d

Min2(a, b) == IF a < b THEN a ELSE b

\* {f"{key}{modifier}": value for modifier, value in zip(modifiers, values)}
\* from its i-th pair on: a later pair replaces an earlier one with its key
RECURSIVE expansion(_, _, _, _, _)
expansion(key, modifiers, values, i, d) ==
    IF i > Min2(Len(modifiers), Len(values)) THEN d
    ELSE expansion(key, modifiers, values, i + 1,
                   ((key \o modifiers[i]) :> values[i]) @@ d)

\* the test of the if statement in the loop of format
translatable(self, val) ==
    /\ val.isstr
    /\ startswith(val.s, <<"{">>)
    /\ inner(val.s) \in DOMAIN self.translations.table

\* the for loop of format over kwargs.copy().items(), from its i-th item on;
\* d is kwargs as updated so far
RECURSIVE translate_loop(_, _, _, _)
translate_loop(self, items, i, d) ==
    IF i > Len(items) THEN d
    ELSE IF translatable(self, items[i].val)
    THEN translate_loop(self, items, i + 1,
             update(d, expansion(items[i].key, self.modifiers,
                                 self.translations.table[inner(items[i].val.s)],
                                 1, EmptyDict)))
    ELSE translate_loop(self, items, i + 1, d)

\* str(value)
str(value) == IF value.isstr THEN Join(value.s) ELSE ToString(value.n)

\* str.format(*args, **kwargs) from the i-th part of the format string on
RECURSIVE str_format(_, _, _, _, _)
str_format(parts, args, kwargs, i, out) ==
    IF i > Len(parts) THEN [raised |-> "", out |-> out]
    ELSE IF parts[i].kind = "lit"
    THEN str_format(parts, args, kwargs, i + 1, out \o parts[i].text)
    ELSE IF parts[i].kind = "field"
    THEN IF parts[i].text \in DOMAIN kwargs
         THEN str_format(parts, args, kwargs, i + 1, out \o str(kwargs[parts[i].text]))
         ELSE [raised |-> "KeyError", out |-> ""]
    ELSE IF parts[i].index < Len(args)
         THEN str_format(parts, args, kwargs, i + 1, out \o str(args[parts[i].index + 1]))
         ELSE [raised |-> "IndexError", out |-> ""]

\* the dict of the keyword arguments of a call
as_dict(items) ==
    [k \in {items[i].key : i \in 1..Len(items)} |->
        (CHOOSE v \in {items[i].val : i \in 1..Len(items)} :
            \E i \in 1..Len(items) : items[i].key = k /\ items[i].val = v)]

\* TranslatableStr.format(*args, **kwargs): the arguments it hands to
\* str.format, and what str.format returns or raises
format(self, args, items) ==
    LET kwargs == IF self.translations.none THEN as_dict(items)
                  ELSE translate_loop(self, items, 1, as_dict(items))
        r == str_format(self.data, args, kwargs, 1, "")
    IN  [final_args |-> args, final_kwargs |-> kwargs,
         raised |-> r.raised, out |-> r.out]

InitFormat ==
    /\ resource_dir = BundledDir
    /\ files = {}
    /\ LOCALES = <<>>
    /\ ctx = [c \in Ctx |-> [made |-> FALSE, locales |-> <<>>, old_locales |-> <<>>]]
    /\ with_stack = <<>>
    /\ last = NoCall
    /\ call = NoAttrs
    /\ best = NoBest
    /\ fmt \in [op : {"pending"},
                self : [data : Templates, translations : Translations,
                        modifiers : Modifiers],
                args : PosArgs,
                kwargs : KwargLists]
    /\ frost = NoFrost

\* the call of TranslatableStr.format
Format ==
    /\ fmt.op = "pending"
    /\ fmt' = [op |-> "format", self |-> fmt.self, args |-> fmt.args,
               kwargs |-> fmt.kwargs]
              @@ format(fmt.self, fmt.args, fmt.kwargs)
    /\ UNCHANGED <<resource_dir, files, LOCALES, ctx, with_stack, last, call, best, frost>>

NextFormat == Format

SpecFormat == InitFormat /\ [][NextFormat]_vars

-----------------------------------------------------------------------------
(* frost_days, as the specification and tests/test_temperature.py describe *)
(* it: daily minimum temperatures, in hundredths of a kelvin, over the     *)
(* days of each resampling period and the other coordinates.               *)

\* the freezing threshold, 273.15 K
freezing == 27315

\* np.nan
NaN == -1

\* the daily values: below the threshold, at the threshold, missing
Temps == {freezing - 1, freezing, NaN}

\* the resampling periods (freq='YS') and the coordinates other than time
Periods == {"1990", "1991"}
Coords == {<<0, 0>>, <<1, 0>>}

Days == 1..PeriodLen

\* the count of one series from its i-th day on, where a missing value makes
\* the count missing
RECURSIVE count_below(_, _, _)
count_below(series, i, acc) ==
    IF i > Len(series) THEN acc
    ELSE IF acc = NaN \/ series[i] = NaN THEN count_below(series, i + 1, NaN)
    ELSE count_below(series, i + 1, acc + (IF series[i] < freezing THEN 1 ELSE 0))

\* a count that skips the missing values
RECURSIVE count_below_skipna(_, _, _)
count_below_skipna(series, i, acc) ==
    IF i > Len(series) THEN acc
    ELSE IF series[i] = NaN THEN count_below_skipna(series, i + 1, acc)
    ELSE count_below_skipna(series, i + 1, acc + (IF series[i] < freezing THEN 1 ELSE 0))

frost_days_skipna(tasmin) ==
    [pc \in Periods \X Coords |->
        count_below_skipna([d \in Days |-> tasmin[<<pc[1], d, pc[2]>>]], 1, 0)]

\* frost_days(tasmin, freq): one value for each period and coordinate
frost_days(tasmin) ==
    [pc \in Periods \X Coords |->
        count_below([d \in Days |-> tasmin[<<pc[1], d, pc[2]>>]], 1, 0)]

InitFrost ==
    /\ resource_dir = BundledDir
    /\ files = {}
    /\ LOCALES = <<>>
    /\ ctx = [c \in Ctx |-> [made |-> FALSE, locales |-> <<>>, old_locales |-> <<>>]]
    /\ with_stack = <<>>
    /\ last = NoCall
    /\ call = NoAttrs
    /\ best = NoBest
    /\ fmt = NoFmt
    /\ frost \in [op : {"pending"}, tasmin : [Periods \X Days \X Coords -> Temps]]

\* the call of frost_days
FrostDays ==
    /\ frost.op = "pending"
    /\ frost' = [op |-> "frost_days", tasmin |-> frost.tasmin,
                 fd |-> frost_days(frost.tasmin)]
    /\ UNCHANGED <<resource_dir, files, LOCALES, ctx, with_stack, last, call, best, fmt>>

NextFrost == FrostDays

SpecFrost == InitFrost /\ [][NextFrost]_vars

-----------------------------------------------------------------------------
(* Properties of set_locales.                                              *)

\* an entry set_locales must refuse: a plain tag that get_best_locale cannot
\* resolve, or a (tag, path) pair whose path is not an existing file
InvalidEntry(e) ==
    \/ e.kind = "str" /\ get_best_locale(e.tag, resource_dir) = None
    \/ e.kind = "path" /\ e.arg \notin files

InvalidAt(L) == {i \in 1..Len(L) : InvalidEntry(L[i])}

Min(S) == CHOOSE i \in S : \A j \in S : i <= j

\* C1: set_locales is all-or-nothing.  A call set_locales(*L) with an invalid
\* entry raises UnavailableLocaleError for the first invalid entry of L and
\* leaves the registry as it was; a call whose entries are all valid raises
\* nothing and makes the registry exactly L.
C1_SetLocalesAllOrNothing ==
    [][\A L \in ArgLists :
          SetLocales(L) =>
              LET invalid == InvalidAt(L)
              IN  IF invalid # {}
                  THEN /\ last'.raised = L[Min(invalid)]
                       /\ LOCALES' = LOCALES
                  ELSE /\ last'.raised = NoEntry
                       /\ LOCALES' = L]_vars

\* a call of set_locales has failed and has left a registry of two locales
C1_Witness ==
    /\ last.op = "set_locales"
    /\ last.raised # NoEntry
    /\ Len(LOCALES) = 2

-----------------------------------------------------------------------------
(* Properties of get_local_attrs.                                          *)

\* the locales a call works on: its arguments, or the registry when it has none
Effective == IF call.locales = <<>> THEN LOCALES ELSE call.locales

\* C7: with append_locale_name=False and more than one effective locale,
\* get_local_attrs raises ValueError before any locale is resolved or loaded
\* and returns no mapping; with no effective locale it returns an empty
\* mapping and raises nothing.
C7_AppendFalseManyLocalesRejected ==
    call.op = "get_local_attrs" =>
        /\ (~call.opt.append_locale_name /\ Len(Effective) > 1) =>
               /\ call.raised = "ValueError"
               /\ ~call.returned
               /\ call.loaded = <<>>
               /\ call.warned = <<>>
               /\ call.attrs = EmptyDict
        /\ Len(Effective) = 0 =>
               /\ call.raised = ""
               /\ call.returned
               /\ call.attrs = EmptyDict

\* a call without locale arguments was rejected for the two locales of the registry
C7_Witness ==
    /\ call.op = "get_local_attrs"
    /\ ~call.opt.append_locale_name
    /\ call.locales = <<>>
    /\ Len(LOCALES) = 2
    /\ call.raised = "ValueError"

\* the key of the indicator in the locale data: "<module>.<identifier>"
IndKey == "atmos.tg"

Loaded(e) == get_local_dict(e, files, resource_dir)

HasEntry(e) == IndKey \in DOMAIN Loaded(e).dict

\* the attributes a locale with an entry contributes
Wanted(e) ==
    {a \in {"long_name", "description", "comment", "title"} :
        /\ ~call.opt.names.given \/ a \in call.opt.names.list
        /\ call.opt.fill_missing \/ a \in DOMAIN Loaded(e).dict[IndKey]}

KeyOf(a, e) ==
    IF call.opt.append_locale_name THEN a \o "_" \o Join(Loaded(e).name) ELSE a

TextOf(a, e) ==
    IF a \in DOMAIN Loaded(e).dict[IndKey]
    THEN Loaded(e).dict[IndKey][a] ELSE tg_mean[a]

Contributors == {i \in 1..Len(Effective) : HasEntry(Effective[i])}

\* the keys of the mapping, and the locales warned about, as C8 states them
C8_KeysAndWarnings ==
    /\ DOMAIN call.attrs =
           {KeyOf(a, Effective[i]) : <<i, a>> \in
               {p \in Contributors \X {"long_name", "description", "comment", "title"} :
                   p[2] \in Wanted(Effective[p[1]])}}
    /\ call.warned = SelectSeq(Effective, LAMBDA e : ~HasEntry(e))

\* C8 as stated: every requested locale with an entry has, for each attribute
\* it contributes, its own key holding its own text.
C8_EveryLocaleHasItsText ==
    (call.op = "get_local_attrs" /\ call.returned) =>
        /\ C8_KeysAndWarnings
        /\ \A i \in Contributors : \A a \in Wanted(Effective[i]) :
               call.attrs[KeyOf(a, Effective[i])].data = TextOf(a, Effective[i])

\* C8, amended: the mapping has exactly the keys of the contributing locales,
\* and each key holds the text of the last requested locale that contributes
\* it; a locale without an entry is warned about and skipped.
C8_LastLocaleOfAKeyWins ==
    (call.op = "get_local_attrs" /\ call.returned) =>
        /\ C8_KeysAndWarnings
        /\ \A i \in Contributors : \A a \in Wanted(Effective[i]) :
               (\A j \in Contributors :
                    (j > i /\ a \in Wanted(Effective[j]))
                        => KeyOf(a, Effective[j]) # KeyOf(a, Effective[i]))
               => call.attrs[KeyOf(a, Effective[i])].data = TextOf(a, Effective[i])

\* a call returned a mapping after warning about its first locale, with
\* fill_missing off and a names list
C8_Witness ==
    /\ call.op = "get_local_attrs"
    /\ call.returned
    /\ Len(Effective) = 2
    /\ call.warned = <<Effective[1]>>
    /\ ~call.opt.fill_missing
    /\ call.opt.names.given
    /\ call.attrs # EmptyDict

-----------------------------------------------------------------------------
(* Properties of the registry under metadata_locale.                       *)

\* C2: whatever runs inside a with block, its __exit__ leaves the registry
\* equal to the registry at the block's entry.
C2_ExitRestoresEntryRegistry ==
    [][Len(with_stack') < Len(with_stack)
          => LOCALES' = with_stack[Len(with_stack)].entry]_vars

\* C9 as stated: every element of the registry is a plain tag that
\* get_best_locale resolves, or a (tag, dict) pair.
C9_RegistryTagsOrDicts ==
    \A i \in 1..Len(LOCALES) :
        \/ LOCALES[i].kind = "str"
           /\ get_best_locale(LOCALES[i].tag, resource_dir) # None
        \/ LOCALES[i].kind = "dict"

\* C9, amended: every element of the registry is a plain tag that
\* get_best_locale resolves, a (tag, dict) pair, or a (tag, path) pair; and
\* whenever the registry changes, the path of each of its (tag, path) pairs
\* is an existing file.
C9_RegistryEntriesValidated ==
    /\ [](\A i \in 1..Len(LOCALES) :
             \/ LOCALES[i].kind = "str"
                /\ get_best_locale(LOCALES[i].tag, resource_dir) # None
             \/ LOCALES[i].kind = "dict"
             \/ LOCALES[i].kind = "path")
    /\ [][LOCALES' # LOCALES =>
             \A i \in 1..Len(LOCALES') :
                 LOCALES'[i].kind = "path" => LOCALES'[i].arg \in files]_vars

\* inside nested with blocks the registry holds a (tag, path) pair, after a
\* set_locales call that failed on an unresolvable tag
C9_Witness ==
    /\ Len(with_stack) = 2
    /\ \E i \in 1..Len(LOCALES) : LOCALES[i].kind = "path"
    /\ last.op = "set_locales"
    /\ last.raised = e_xx

-----------------------------------------------------------------------------
(* Properties of get_best_locale.                                          *)

\* the available locales: the list A of the claims
Available == list_locales(resource_dir)

\* the part of a tag before its first "-"
Prefix(t) ==
    LET dashes == {i \in 1..Len(t) : t[i] = "-"}
    IN  IF dashes = {} THEN t ELSE SubSeq(t, 1, Min(dashes) - 1)

SamePrefix(t) == {i \in 1..Len(Available) : Prefix(Available[i]) = Prefix(t)}

\* C5: get_best_locale resolves in a fixed order: the tag itself when it is
\* available, else its prefix when that is available, else the first
\* available locale with the same prefix, else None; a result other than
\* None is an available locale.
C5_BestLocalePriorityOrder ==
    best.op = "get_best_locale" =>
        LET t == best.locale
        IN  /\ best.result =
                   IF t \in Range(Available) THEN t
                   ELSE IF Prefix(t) \in Range(Available) THEN Prefix(t)
                   ELSE IF SamePrefix(t) # {} THEN Available[Min(SamePrefix(t))]
                   ELSE None
            /\ best.result # None => best.result \in Range(Available)

\* neither the tag nor its prefix is available, two locales of its language
\* are, and the result is the one listed first
C5_Witness ==
    /\ best.op = "get_best_locale"
    /\ best.locale \notin Range(Available)
    /\ Prefix(best.locale) \notin Range(Available)
    /\ Cardinality(SamePrefix(best.locale)) = 2
    /\ best.result = Available[Min(SamePrefix(best.locale))]
    /\ Min(SamePrefix(best.locale)) > 1

\* C6 as stated: a tag that is not among the available locales gets None.
C6_AbsentTagGetsNone ==
    (best.op = "get_best_locale" /\ best.locale \notin Range(Available))
        => best.result = None

\* C6, amended: a tag gets None when neither the tag, nor its prefix, nor any
\* locale with the same prefix is among the available locales, that is when
\* no available locale has the prefix of the tag.
C6_NoLocaleOfTheLanguageGetsNone ==
    (best.op = "get_best_locale" /\ SamePrefix(best.locale) = {})
        => best.result = None

\* locales are available, none of the language of the tag, and the result is None
C6_Witness ==
    /\ best.op = "get_best_locale"
    /\ Len(Available) >= 2
    /\ SamePrefix(best.locale) = {}
    /\ best.result = None

-----------------------------------------------------------------------------
(* Properties of TranslatableStr.format.                                   *)

\* a value of the exact shape "{token}" with token a key of the translations
ExactToken(val) ==
    /\ ~fmt.self.translations.none
    /\ val.isstr
    /\ Len(val.s) >= 2
    /\ val.s[1] = "{"
    /\ val.s[Len(val.s)] = "}"
    /\ SubSeq(val.s, 2, Len(val.s) - 1) \in DOMAIN fmt.self.translations.table

TokenOf(val) == SubSeq(val.s, 2, Len(val.s) - 1)

ModifierSet == {fmt.self.modifiers[i] : i \in 1..Len(fmt.self.modifiers)}

\* the keywords that the keyword arguments of exact shape, other than the
\* i-th, expand to
ExpandedFromOthers(i) ==
    {fmt.kwargs[j].key \o m : <<j, m>> \in
        {p \in (1..Len(fmt.kwargs)) \X ModifierSet :
            p[1] # i /\ ExactToken(fmt.kwargs[p[1]].val)}}

FieldsOf(parts) == {parts[i].text : i \in {j \in 1..Len(parts) : parts[j].kind = "field"}}

\* C3: a keyword k whose value is "{token}" with a known token is replaced:
\* str.format receives k+modifier_i = translations[token][i] for every
\* modifier and (no modifier being empty) no longer receives k, so that a
\* format string that refers to {k} raises the missing-placeholder error.
C3_TranslatedKeywordReplaced ==
    fmt.op = "format" =>
        \A i \in 1..Len(fmt.kwargs) :
            LET k == fmt.kwargs[i].key
                val == fmt.kwargs[i].val
            IN  (/\ ExactToken(val)
                 /\ "" \notin ModifierSet
                 /\ ExpandedFromOthers(i) = {})
                => /\ \A n \in 1..Len(fmt.self.modifiers) :
                          /\ (k \o fmt.self.modifiers[n]) \in DOMAIN fmt.final_kwargs
                          /\ fmt.final_kwargs[k \o fmt.self.modifiers[n]]
                                 = fmt.self.translations.table[TokenOf(val)][n]
                   /\ k \notin DOMAIN fmt.final_kwargs
                   /\ k \in FieldsOf(fmt.self.data) => fmt.raised = "KeyError"

\* C4: a keyword whose value is not of the exact shape "{token}" with a known
\* token gets no modifier-suffixed keyword and reaches str.format with its
\* value as given; the positional arguments reach it unchanged.
C4_OnlyExactShapeTranslated ==
    fmt.op = "format" =>
        /\ fmt.final_args = fmt.args
        /\ \A i \in 1..Len(fmt.kwargs) :
               LET k == fmt.kwargs[i].key
                   val == fmt.kwargs[i].val
                   given == {fmt.kwargs[j].key : j \in 1..Len(fmt.kwargs)}
               IN  ~ExactToken(val) =>
                       /\ k \notin ExpandedFromOthers(i) => fmt.final_kwargs[k] = val
                       /\ \A m \in ModifierSet :
                              (k \o m) \in DOMAIN fmt.final_kwargs
                                  => (k \o m) \in given \cup ExpandedFromOthers(i)

-----------------------------------------------------------------------------
(* Properties of frost_days.                                               *)

\* the values of one coordinate in one period
ValuesAt(p, c) == {frost.tasmin[<<p, d, c>>] : d \in Days}

=============================================================================
